---- MODULE Spec2Model ----
(***************************************************************************)
(* AI-controlled Selenium automation: the plan executor                    *)
(* (selenium_executor.py), the runtime monitor (runtime_state.py), the     *)
(* planner boundary (openrouter_planner.py), the reporter (reporter.py)    *)
(* and the recovery orchestrator (orchestrator.py), as one state machine.  *)
(***************************************************************************)
EXTENDS Integers, Sequences, FiniteSets, TLC

\* Longest plan the planner (or a direct caller of execute_plan) supplies.
MaxPlanLen == 2
\* Default of max_retries (AISeleniumOrchestrator.__init__); the configurations
\* explored are -2 (MAX_RETRIES is any int) up to this default.
DefaultMaxRetries == 2
\* Most listeners registered on a monitor driven directly.
MaxListeners == 2
\* Most events emitted on a monitor driven directly.
MaxEmits == 3
\* Longest log handed to an ExecutionReporter constructed directly.
MaxLogLen == 4
\* Most Summaries generated from one reporter.
MaxRenders == 2
\* Resolution of the wall clock: clock ticks per second.
TicksPerSecond == 2
\* Ticks the wall clock advances while a reporter is in use.
MaxClock == 2

VARIABLES
    auto_retry,     \* AISeleniumOrchestrator.auto_retry
    max_retries,    \* AISeleniumOrchestrator.max_retries
    events,         \* RuntimeMonitor.events
    current_step,   \* RuntimeMonitor.current_step
    listeners,      \* RuntimeMonitor.listeners: how each callback behaves
    delivered,      \* every listener invocation made by emit, in order
    emit_error,     \* exception that left the last emit call (None: returned)
    now,            \* the wall clock read by datetime.now(), in ticks
    snapshot,       \* list returned by get_log / held by an ExecutionReporter
    summaries,      \* the Summary dicts generate_summary returned, in order
    response,       \* HTTP response given to a planner called directly
    sessions,       \* browser sessions start_browser has created
    run,            \* the execute_task call in progress on this orchestrator
    driver,         \* SeleniumExecutor.driver: "none" | "alive" | "dead"
    url,            \* driver.current_url of the live session
    plan,           \* plan["steps"] of the plan object shared by caller and executor
    epc,            \* position inside execute_plan
    i,              \* loop index of execute_plan
    result,         \* value returned by execute_plan: "none" | "true" | "false"
    callStart,      \* len(monitor.events) when execute_plan was entered
    raised,         \* str(e) of the exception the last dispatched action raised
    opc,            \* position inside execute_task
    retry_count,    \* local retry_count of execute_task
    execResults,    \* outcome of every execute_plan call of this run, in order
    planOutcome,    \* outcome of every planner call of this run, in order
    refineArgs,     \* arguments of the last refine_plan_with_error call
    lastPlannerPlan \* plan returned by the last successful planner call

vars == <<auto_retry, max_retries, events, current_step, driver, url, plan, epc, i,
          result, callStart, raised, opc, retry_count, execResults, planOutcome,
          refineArgs, lastPlannerPlan, listeners, delivered, emit_error, now,
          snapshot, summaries, response, sessions, run>>

monitorVars == <<events, current_step, delivered, emit_error, now>>
clientVars == <<listeners, snapshot, summaries, response>>
configVars == <<auto_retry, max_retries>>
sessionVars == <<run>>
taskVars == <<opc, retry_count, execResults, planOutcome, refineArgs, lastPlannerPlan>>

None == "None"
NoPath == <<>>
\* current_step before any event (Optional[int] = None)
NoStep == -1
NoArgs == [called |-> FALSE]
\* No list handed out yet / no response received yet
NoSnapshot == [taken |-> FALSE]
NoResponse == [kind |-> "none"]
\* The first execute_task call on an orchestrator: no earlier run, and
\* `earlier`, the log as it was when the call was made, is empty
FirstRun == [later |-> FALSE, earlier |-> <<>>]

----------------------------------------------------------------------------
\* Plans and steps (loosely typed dicts: a step is a record of the keys it has)

OpenStep == [action |-> "open", url |-> "A"]
TypeStep == [action |-> "type", selector |-> "#q", value |-> "v"]
ClickStep == [action |-> "click", selector |-> "#x"]
WaitStep == [action |-> "wait", seconds |-> 1]
WaitNegative == [action |-> "wait", seconds |-> -1]
ScreenshotStep == [action |-> "screenshot"]
HoverStep == [action |-> "hover", selector |-> "#x"]
ClickNoSelector == [action |-> "click"]
NoActionStep == [selector |-> "#x"]

\* Steps a direct caller of execute_plan may pass (nothing validates them).
StepUniverse ==
    {OpenStep, TypeStep, ClickStep, WaitStep, ScreenshotStep,
     HoverStep, ClickNoSelector, NoActionStep}

\* Steps occurring in the planner's (language model's) answers.
PlannerSteps == {OpenStep, ClickStep, WaitNegative, HoverStep, ClickNoSelector}

PlansOver(S) == UNION {[1..n -> S] : n \in 0..MaxPlanLen}

\* dict.get(key) / dict.get(key, default)
GetOr(step, key, default) == IF key \in DOMAIN step THEN step[key] ELSE default
Get(step, key) == GetOr(step, key, None)

----------------------------------------------------------------------------
\* Event model and monitor (runtime_state.py)

\* The constructor calls of the executor pass timestamp=datetime.now().isoformat()
StepEvent(step_index, action, status, selector, u, value, error, screenshot_path) ==
    [step_index |-> step_index, action |-> action, status |-> status,
     timestamp |-> now,
     selector |-> selector, url |-> u, value |-> value, error |-> error,
     screenshot_path |-> screenshot_path]

\* Listener behaviours: console_listener prints, "ok" returns, "raises" raises
ListenerKinds == {"ok", "raises"}
ConsoleListener == "console"
RaisingListeners == {k \in 1..Len(listeners) : listeners[k] = "raises"}
ListenerError == "Exception: listener failed"

\* RuntimeMonitor.add_listener
add_listener(callback) == listeners' = Append(listeners, callback)

\* Variant of call_listeners without the try/except:
\* the first raising listener ends the loop and its exception leaves emit.
call_listeners_NoTry(ev) ==
    LET stop == IF RaisingListeners = {} THEN Len(listeners)
                ELSE CHOOSE k \in RaisingListeners : \A j \in RaisingListeners : k <= j
    IN [calls |-> [k \in 1..stop |-> [listener |-> k, event |-> ev]],
        escaped |-> IF RaisingListeners = {} THEN None ELSE ListenerError]

\* The listener loop of emit (lines 47-52): each call sits in its own
\* try/except Exception, so the loop visits every listener
call_listeners(ev) ==
    [calls |-> [k \in 1..Len(listeners) |-> [listener |-> k, event |-> ev]],
     escaped |-> None]

\* RuntimeMonitor.emit: append, set current_step, call the listeners.  The
\* wall clock has moved on by one tick when the next event is built.
Emit(ev) ==
    /\ events' = Append(events, ev)
    /\ current_step' = ev.step_index
    /\ delivered' = delivered \o call_listeners(ev).calls
    /\ emit_error' = call_listeners(ev).escaped
    /\ now' = now + 1

SeqMax(s) == CHOOSE m \in {s[k].step_index : k \in 1..Len(s)} :
                 \A k \in 1..Len(s) : s[k].step_index <= m
CountStatus(s, st) == Cardinality({k \in 1..Len(s) : s[k].status = st})

\* Variant of get_current_status that takes len(self.events) for total_steps.
get_current_status_TotalIsLen ==
    IF events = <<>>
    THEN [status |-> "not_started", total_steps |-> 0]
    ELSE [status |-> IF current_step # NoStep THEN "running" ELSE "stopped",
          total_steps |-> Len(events),
          completed |-> CountStatus(events, "success"),
          failed |-> CountStatus(events, "failed"),
          current_step |-> current_step]

\* RuntimeMonitor.get_current_status
get_current_status ==
    IF events = <<>>
    THEN [status |-> "not_started", total_steps |-> 0]
    ELSE [status |-> IF current_step # NoStep THEN "running" ELSE "stopped",
          total_steps |-> SeqMax(events) + 1,
          completed |-> CountStatus(events, "success"),
          failed |-> CountStatus(events, "failed"),
          current_step |-> current_step]

----------------------------------------------------------------------------
\* Log access (runtime_state.py) and the reporter (reporter.py)

\* StepEvent.to_dict: asdict, a fresh dict with the same keys and values
to_dict(ev) == [key \in DOMAIN ev |-> ev[key]]

\* Variant of get_log returning self.events itself.
get_log_ReturnsSelf == [taken |-> TRUE, log |-> events, shares |-> TRUE]

\* RuntimeMonitor.get_log: a new list of new dicts, sharing nothing with the
\* monitor's list
get_log ==
    [taken |-> TRUE, log |-> [k \in 1..Len(events) |-> to_dict(events[k])],
     shares |-> FALSE]

\* Timestamp of an empty list (start_time = end_time = None)
NoTime == -1

\* ExecutionReporter.__init__, lines 15-20
start_time(log) == IF log = <<>> THEN NoTime ELSE log[1].timestamp
end_time(log) == IF log = <<>> THEN NoTime ELSE log[Len(log)].timestamp

\* Rounding to the nearest unit, as round(x, 2) and the .1f format do (no tie
\* arises for the values reached)
RoundDiv(a, b) == (2 * a + b) \div (2 * b)

\* _calculate_duration: the formatted string as (unit, tenths of the unit)
calculate_duration(log) ==
    IF start_time(log) = NoTime \/ end_time(log) = NoTime
    THEN [unit |-> "N/A", tenths |-> 0]
    ELSE LET ticks == end_time(log) - start_time(log) IN
         IF ticks < 60 * TicksPerSecond
         THEN [unit |-> "s", tenths |-> RoundDiv(10 * ticks, TicksPerSecond)]
         ELSE IF ticks < 3600 * TicksPerSecond
         THEN [unit |-> "m", tenths |-> RoundDiv(10 * ticks, 60 * TicksPerSecond)]
         ELSE [unit |-> "h", tenths |-> RoundDiv(10 * ticks, 3600 * TicksPerSecond)]

\* Variant of generate_execution_id that always formats the current time.
generate_execution_id_AlwaysNow(log, clock) ==
    [format |-> "%Y%m%d%H%M%S", second |-> clock \div TicksPerSecond]

\* _generate_execution_id: the first 15 characters of the stripped start
\* timestamp (date, "T", time to the second), else the wall clock to the second
generate_execution_id(log, clock) ==
    IF start_time(log) # NoTime
    THEN [format |-> "isoformat[:15]", second |-> start_time(log) \div TicksPerSecond]
    ELSE [format |-> "%Y%m%d%H%M%S", second |-> clock \div TicksPerSecond]

\* Python truthiness of e.get('url')
Truthy(v) == v \notin {None, ""}

ErrorRecord(e) ==
    [step |-> e.step_index, action |-> e.action, error |-> e.error,
     screenshot |-> e.screenshot_path]

\* Variant of collect_errors selecting status == 'error'.
collect_errors_StatusError(log) ==
    LET sel == SelectSeq(log, LAMBDA e : e.status = "error")
    IN [k \in 1..Len(sel) |-> ErrorRecord(sel[k])]

\* generate_summary, lines 35-43: one record per failed event, in list order
collect_errors(log) ==
    LET sel == SelectSeq(log, LAMBDA e : e.status = "failed")
    IN [k \in 1..Len(sel) |-> ErrorRecord(sel[k])]

\* Variant of collect_urls without the status == 'success' filter.
collect_urls_AnyStatus(log) ==
    {log[k].url : k \in {j \in 1..Len(log) : Truthy(log[j].url)}}

\* generate_summary, lines 46-49; list(set(...)) has no defined order
collect_urls(log) ==
    {log[k].url : k \in {j \in 1..Len(log) : Truthy(log[j].url) /\ log[j].status = "success"}}

\* Variant of summary_status that looks at the last event only.
summary_status_LastEvent(log) ==
    IF log = <<>> \/ log[Len(log)].status # "failed" THEN "completed" ELSE "failed"

\* generate_summary, line 61: 'completed' if failed_steps == 0 else 'failed'
summary_status(log) ==
    IF CountStatus(log, "failed") = 0 THEN "completed" ELSE "failed"

\* generate_summary on the list the reporter holds, called at time `clock`;
\* success_rate is in hundredths of a percent (round(success_rate, 2))
generate_summary(log, clock) ==
    LET total_steps == CountStatus(log, "started")
        successful_steps == CountStatus(log, "success")
        failed_steps == CountStatus(log, "failed")
    IN [execution_id |-> generate_execution_id(log, clock),
        timestamp |-> start_time(log),
        duration |-> calculate_duration(log),
        total_steps |-> total_steps,
        successful_steps |-> successful_steps,
        failed_steps |-> failed_steps,
        success_rate |-> IF total_steps > 0
                         THEN RoundDiv(10000 * successful_steps, total_steps)
                         ELSE 0,
        urls_visited |-> collect_urls(log),
        errors |-> collect_errors(log),
        status |-> summary_status(log)]

\* AISeleniumOrchestrator.get_summary
get_summary == generate_summary(get_log.log, now)

----------------------------------------------------------------------------
\* Plan executor (selenium_executor.py)

InvalidSession == "WebDriverException: invalid session"
StepExecutionFailed == "Step execution failed"

\* str(e) of `raise ValueError(f"Unknown action: {action}")`
\* str(e) of the ValueError time.sleep raises for a negative argument
SleepLengthError == "sleep length must be non-negative"
UnknownAction(action) == "Unknown action: " \o action

\* What the dispatch of one step (the if/elif chain of _execute_step) can do:
\* "ok", or the message of the exception it raises.  A missing key is a
\* KeyError, a dead session makes every driver call raise, an element wait
\* may time out, a navigation may fail.
DispatchOutcomes(step) ==
    LET action == Get(step, "action") IN
    CASE action = "open" ->
            IF "url" \notin DOMAIN step THEN {"'url'"}
            ELSE IF driver = "dead" THEN {InvalidSession}
            ELSE {"ok", "WebDriverException: navigation failed"}
      [] action = "type" ->
            IF "selector" \notin DOMAIN step THEN {"'selector'"}
            ELSE IF "value" \notin DOMAIN step THEN {"'value'"}
            ELSE IF driver = "dead" THEN {InvalidSession}
            ELSE {"ok", "TimeoutException: element not present"}
      [] action = "click" ->
            IF "selector" \notin DOMAIN step THEN {"'selector'"}
            ELSE IF driver = "dead" THEN {InvalidSession}
            ELSE {"ok", "TimeoutException: element not clickable"}
      [] action = "wait" ->
            IF "seconds" \notin DOMAIN step THEN {"'seconds'"}
            ELSE IF step.seconds < 0 THEN {SleepLengthError}
            ELSE {"ok"}
      [] action = "screenshot" ->
            IF driver = "dead" THEN {InvalidSession} ELSE {"ok"}
      [] OTHER -> {UnknownAction(action)}

\* Variant of execute_plan_entry that calls start_browser on every call.
execute_plan_entry_AlwaysStarts ==
    /\ epc = "entry"
    /\ i' = 0
    /\ callStart' = Len(events)
    /\ raised' = None
    /\ result' = "none"
    /\ \/ /\ driver' = "alive" /\ url' = "data:," /\ epc' = "loop"
          /\ sessions' = sessions + 1
       \/ /\ driver' = driver /\ url' = url /\ epc' = "raised"
          /\ sessions' = sessions
    /\ UNCHANGED <<monitorVars, configVars, sessionVars, clientVars, taskVars, plan>>

\* Variant of execute_plan_entry that keeps the loop index of the previous
\* call: execution resumes at the step that failed.
execute_plan_entry_Resumes ==
    /\ epc = "entry"
    /\ i' = i
    /\ callStart' = Len(events)
    /\ raised' = None
    /\ result' = "none"
    /\ \/ /\ driver = "none"
          /\ \/ /\ driver' = "alive" /\ url' = "data:," /\ epc' = "loop"
                /\ sessions' = sessions + 1
             \/ /\ driver' = "none" /\ url' = url /\ epc' = "raised"
                /\ sessions' = sessions
       \/ /\ driver # "none"
          /\ UNCHANGED <<driver, url, sessions>>
          /\ epc' = "loop"
    /\ UNCHANGED <<monitorVars, configVars, sessionVars, clientVars, taskVars, plan>>

\* execute_plan, lines 55-58: start the browser when there is none
execute_plan_entry ==
    /\ epc = "entry"
    /\ i' = 0
    /\ callStart' = Len(events)
    /\ raised' = None
    /\ result' = "none"
    /\ \/ /\ driver = "none"
          /\ \/ /\ driver' = "alive" /\ url' = "data:," /\ epc' = "loop"
                /\ sessions' = sessions + 1
             \/ /\ driver' = "none" /\ url' = url /\ epc' = "raised"
                /\ sessions' = sessions
       \/ /\ driver # "none"
          /\ UNCHANGED <<driver, url, sessions>>
          /\ epc' = "loop"
    /\ UNCHANGED <<monitorVars, configVars, sessionVars, clientVars, taskVars, plan>>

\* Variant of execute_step_started that numbers the steps from 1 in the
\* started event.
execute_step_started_OneBased ==
    /\ epc = "loop"
    /\ i < Len(plan)
    /\ LET step == plan[i + 1] IN
       IF driver = "dead"
       THEN /\ epc' = "raised"
            /\ UNCHANGED monitorVars
       ELSE /\ Emit(StepEvent(i + 1, Get(step, "action"), "started",
                              Get(step, "selector"),
                              IF driver = "alive" THEN url ELSE None,
                              Get(step, "value"), None, NoPath))
            /\ epc' = "dispatch"
    /\ UNCHANGED <<configVars, sessionVars, clientVars, sessions, taskVars, driver, url, plan, i,
                   result, callStart, raised>>

\* _execute_step, lines 85-96: the started event
execute_step_started ==
    /\ epc = "loop"
    /\ i < Len(plan)
    /\ LET step == plan[i + 1] IN
       IF driver = "dead"
       THEN /\ epc' = "raised"
            /\ UNCHANGED monitorVars
       ELSE /\ Emit(StepEvent(i, Get(step, "action"), "started", Get(step, "selector"),
                              IF driver = "alive" THEN url ELSE None,
                              Get(step, "value"), None, NoPath))
            /\ epc' = "dispatch"
    /\ UNCHANGED <<configVars, sessionVars, clientVars, sessions, taskVars, driver, url, plan, i, result, callStart, raised>>

\* What execute_plan does once _execute_step returned False (lines 63-78)
execute_plan_step_failed ==
    /\ epc = "step_failed"
    /\ LET step == plan[i + 1] IN
       IF driver = "dead"
       THEN /\ epc' = "raised"
            /\ UNCHANGED <<monitorVars, result>>
       ELSE /\ Emit(StepEvent(i, GetOr(step, "action", "unknown"), "failed",
                              Get(step, "selector"),
                              IF driver = "alive" THEN url ELSE None,
                              None, StepExecutionFailed, <<"error_step", i>>))
            /\ result' = "false"
            /\ epc' = "returned"
    /\ UNCHANGED <<configVars, sessionVars, clientVars, sessions, taskVars, driver, url, plan, i, callStart, raised>>

\* _execute_step, lines 98-147: dispatch, then the success or the failed event
execute_step_dispatch ==
    /\ epc = "dispatch"
    /\ LET step == plan[i + 1]
           action == Get(step, "action")
       IN \E out \in DispatchOutcomes(step) :
            LET ok == out = "ok" /\ driver = "alive"
                err == IF out = "ok" THEN InvalidSession ELSE out
                shot == <<"step", i>>
                step2 == IF ok /\ action = "screenshot"
                         THEN ("screenshot_path" :> shot) @@ step
                         ELSE step
            IN /\ plan' = [plan EXCEPT ![i + 1] = step2]
               /\ url' = IF ok /\ action = "open" THEN step.url ELSE url
               /\ IF ok
                  THEN /\ Emit(StepEvent(i, action, "success", Get(step2, "selector"),
                                         url', None, None,
                                         GetOr(step2, "screenshot_path", NoPath)))
                       /\ i' = i + 1
                       /\ epc' = "loop"
                       /\ raised' = raised
                  ELSE /\ raised' = err
                       /\ i' = i
                       /\ IF driver = "dead"
                          THEN /\ epc' = "raised"
                               /\ UNCHANGED monitorVars
                          ELSE /\ Emit(StepEvent(i, action, "failed",
                                                 Get(step, "selector"), url, None,
                                                 err, <<"error_step", i>>))
                               /\ epc' = "step_failed"
    /\ UNCHANGED <<configVars, sessionVars, clientVars, sessions, taskVars, driver, result, callStart>>

\* Variant of execute_plan_done without the final `return True`: the call
\* returns None, which the caller reads as failure.
execute_plan_done_ReturnsNone ==
    /\ epc = "loop"
    /\ i >= Len(plan)
    /\ result' = "false"
    /\ epc' = "returned"
    /\ UNCHANGED <<monitorVars, configVars, sessionVars, clientVars, sessions, taskVars, driver, url, plan, i,
                   callStart, raised>>

\* execute_plan, line 80: every step returned True
execute_plan_done ==
    /\ epc = "loop"
    /\ i >= Len(plan)
    /\ result' = "true"
    /\ epc' = "returned"
    /\ UNCHANGED <<monitorVars, configVars, sessionVars, clientVars, sessions, taskVars, driver, url, plan, i,
                   callStart, raised>>

\* The browser session ends under the executor (window closed, chromedriver
\* gone): every later driver call raises.
BrowserDies ==
    /\ driver = "alive"
    /\ epc \in {"loop", "dispatch", "step_failed"} \/ opc = "recovering"
    /\ driver' = "dead"
    /\ UNCHANGED <<monitorVars, configVars, sessionVars, clientVars, sessions, taskVars, url, plan, epc, i, result,
                   callStart, raised>>

----------------------------------------------------------------------------
\* A direct caller of SeleniumExecutor.execute_plan (no orchestrator)

ExecInit ==
    /\ auto_retry = TRUE
    /\ max_retries = DefaultMaxRetries
    /\ events = <<>>
    /\ current_step = NoStep
    /\ driver = "none"
    /\ url = None
    /\ plan = <<>>
    /\ epc = "idle"
    /\ i = 0
    /\ result = "none"
    /\ callStart = 0
    /\ raised = None
    /\ opc = "direct"
    /\ retry_count = 0
    /\ execResults = <<>>
    /\ planOutcome = <<>>
    /\ refineArgs = NoArgs
    /\ lastPlannerPlan = <<>>
    /\ listeners = <<>>
    /\ delivered = <<>>
    /\ emit_error = None
    /\ now = 0
    /\ snapshot = NoSnapshot
    /\ summaries = <<>>
    /\ response = NoResponse
    /\ sessions = 0
    /\ run = FirstRun

DirectCall ==
    /\ opc = "direct"
    /\ epc = "idle"
    /\ plan' \in PlansOver(StepUniverse)
    /\ epc' = "entry"
    /\ UNCHANGED <<monitorVars, configVars, sessionVars, clientVars, sessions, taskVars, driver, url, i, result,
                   callStart, raised>>

ExecNext ==
    \/ DirectCall
    \/ execute_plan_entry
    \/ execute_step_started
    \/ execute_step_dispatch
    \/ execute_plan_step_failed
    \/ execute_plan_done
    \/ BrowserDies

ExecSpec == ExecInit /\ [][ExecNext]_vars

----------------------------------------------------------------------------
\* Planner boundary (openrouter_planner.py)

SupportedActions == {"open", "type", "click", "wait", "screenshot"}

\* What the HTTP call and json.loads can yield: a transport failure, text that
\* is no JSON, a JSON object without "steps", or a JSON object with steps.
PlannerResponses ==
    {[kind |-> "transport_error"], [kind |-> "non_json"], [kind |-> "no_steps_key"]}
        \cup {[kind |-> "json", steps |-> p] : p \in PlansOver(PlannerSteps)}

\* Variant of ValidStep whose 'type' test reads `and` for `or`: one of the two
\* fields is enough.
ValidStep_TypeEitherField(step) ==
    /\ "action" \in DOMAIN step
    /\ step.action \in SupportedActions
    /\ step.action = "open" => "url" \in DOMAIN step
    /\ step.action = "type" => {"selector", "value"} \cap DOMAIN step # {}
    /\ step.action = "click" => "selector" \in DOMAIN step
    /\ step.action = "wait" => "seconds" \in DOMAIN step

\* The per-step validation of get_task_plan (lines 94-110)
ValidStep(step) ==
    /\ "action" \in DOMAIN step
    /\ step.action \in SupportedActions
    /\ step.action = "open" => "url" \in DOMAIN step
    /\ step.action = "type" => {"selector", "value"} \subseteq DOMAIN step
    /\ step.action = "click" => "selector" \in DOMAIN step
    /\ step.action = "wait" => "seconds" \in DOMAIN step

\* get_task_plan on one response: the plan, or the exception it raises
get_task_plan(resp) ==
    IF resp.kind = "transport_error" THEN [ok |-> FALSE, error |-> "OpenRouter API error"]
    ELSE IF resp.kind = "non_json" THEN [ok |-> FALSE, error |-> "Invalid JSON from AI"]
    ELSE IF resp.kind = "no_choices_key" THEN [ok |-> FALSE, error |-> "Planning error"]
    ELSE IF resp.kind = "no_steps_key" THEN [ok |-> FALSE, error |-> "Planning error"]
    ELSE IF \E k \in 1..Len(resp.steps) : ~ValidStep(resp.steps[k])
         THEN [ok |-> FALSE, error |-> "Planning error"]
         ELSE [ok |-> TRUE, steps |-> resp.steps]

\* refine_plan_with_error: the prompt quotes original_plan['steps'][error_step]
\* (IndexError when there is no such step), then get_task_plan
refine_plan_with_error(original_plan, error_step, resp) ==
    IF error_step >= Len(original_plan)
    THEN [ok |-> FALSE, error |-> "IndexError"]
    ELSE get_task_plan(resp)

----------------------------------------------------------------------------
\* Recovery orchestrator (orchestrator.py)

Terminal == {"succeeded", "failed", "crashed"}

\* _print_summary raises when the status dict has no 'completed' key (empty
\* log) or total_steps is 0 (division by zero)
PrintSummaryRaises ==
    LET status == get_current_status IN
    \/ "completed" \notin DOMAIN status
    \/ status.total_steps = 0

FailedEvents == SelectSeq(events, LAMBDA e : e.status = "failed")

\* Variant of LastFailure reading failed_events[0].
LastFailure_First == FailedEvents[1]

\* last_failure = failed_events[-1] (taken only when failed_events is non-empty)
LastFailure == FailedEvents[Len(FailedEvents)]

Init ==
    /\ auto_retry \in BOOLEAN
    /\ max_retries \in -2..DefaultMaxRetries
    /\ events = <<>>
    /\ current_step = NoStep
    /\ driver = "none"
    /\ url = None
    /\ plan = <<>>
    /\ epc = "idle"
    /\ i = 0
    /\ result = "none"
    /\ callStart = 0
    /\ raised = None
    /\ opc = "idle"
    /\ retry_count = 0
    /\ execResults = <<>>
    /\ planOutcome = <<>>
    /\ refineArgs = NoArgs
    /\ lastPlannerPlan = <<>>
    /\ listeners = <<ConsoleListener>>
    /\ delivered = <<>>
    /\ emit_error = None
    /\ now = 0
    /\ snapshot = NoSnapshot
    /\ summaries = <<>>
    /\ response = NoResponse
    /\ sessions = 0
    /\ run = FirstRun

\* Variant of AfterPlanning whose except branch lacks the `return False`.
AfterPlanning_Continues(ok) == "loop_check"

\* Where execute_task goes after the initial planner call (lines 57-64)
AfterPlanning(ok) == IF ok THEN "loop_check" ELSE "failed"

\* execute_task, lines 42-69: the initial planning call
execute_task_planning ==
    /\ opc = "idle"
    /\ \E resp \in PlannerResponses :
         LET r == get_task_plan(resp) IN
         /\ planOutcome' = <<IF r.ok THEN "ok" ELSE "error">>
         /\ plan' = IF r.ok THEN r.steps ELSE plan
         /\ lastPlannerPlan' = IF r.ok THEN r.steps ELSE lastPlannerPlan
         /\ opc' = AfterPlanning(r.ok)
    /\ retry_count' = 0
    /\ execResults' = <<>>
    /\ refineArgs' = NoArgs
    /\ UNCHANGED <<monitorVars, configVars, sessionVars, clientVars, sessions, driver, url, epc, i, result, callStart,
                   raised>>

\* execute_task, lines 70-71 and 116: the while test, then the executor call
execute_task_loop ==
    /\ opc = "loop_check"
    /\ IF retry_count <= max_retries
       THEN opc' = "executing" /\ epc' = "entry"
       ELSE opc' = "failed" /\ epc' = epc
    /\ UNCHANGED <<monitorVars, configVars, sessionVars, clientVars, sessions, driver, url, plan, i, result, callStart,
                   raised, retry_count, execResults, planOutcome, refineArgs,
                   lastPlannerPlan>>

\* Variant of AfterExecute testing `retry_count > self.max_retries`.
AfterExecute_OffByOne(success) ==
    IF success
    THEN IF PrintSummaryRaises THEN "crashed" ELSE "succeeded"
    ELSE IF ~auto_retry \/ retry_count > max_retries
         THEN IF PrintSummaryRaises THEN "crashed" ELSE "failed"
         ELSE "recovering"

\* Where execute_task goes once execute_plan returned (lines 73-89)
AfterExecute(success) ==
    IF success
    THEN IF PrintSummaryRaises THEN "crashed" ELSE "succeeded"
    ELSE IF ~auto_retry \/ retry_count >= max_retries
         THEN IF PrintSummaryRaises THEN "crashed" ELSE "failed"
         ELSE "recovering"

execute_task_after_exec ==
    /\ opc = "executing"
    /\ epc = "returned"
    /\ opc' = AfterExecute(result = "true")
    /\ execResults' = Append(execResults, result)
    /\ epc' = "idle"
    /\ UNCHANGED <<monitorVars, configVars, sessionVars, clientVars, sessions, driver, url, plan, i, result, callStart,
                   raised, retry_count, planOutcome, refineArgs, lastPlannerPlan>>

\* An exception leaving execute_plan is caught nowhere in execute_task
execute_task_exec_raised ==
    /\ opc = "executing"
    /\ epc = "raised"
    /\ opc' = "crashed"
    /\ execResults' = Append(execResults, "raised")
    /\ epc' = "idle"
    /\ UNCHANGED <<monitorVars, configVars, sessionVars, clientVars, sessions, driver, url, plan, i, result, callStart,
                   raised, retry_count, planOutcome, refineArgs, lastPlannerPlan>>

\* last_failure.error or "Unknown error"
ErrorOrUnknown(error) == IF error \in {None, ""} THEN "Unknown error" ELSE error

\* Variant of RefinedPlan that drops the planner's answer.
RefinedPlan_KeepsOld(old, r) == old

\* `plan = self.planner.refine_plan_with_error(...)`: the active plan after the
\* call (unchanged when the call raised)
RefinedPlan(old, r) == IF r.ok THEN r.steps ELSE old

\* execute_task, lines 91-114: the recovery attempt
execute_task_recover ==
    /\ opc = "recovering"
    /\ IF FailedEvents = <<>>
       THEN /\ retry_count' = retry_count + 1
            /\ opc' = "loop_check"
            /\ UNCHANGED <<plan, planOutcome, refineArgs, lastPlannerPlan>>
       ELSE LET last_failure == LastFailure IN
            IF driver = "dead"
            THEN \* get_page_source raises
                 /\ opc' = "failed"
                 /\ UNCHANGED <<plan, planOutcome, refineArgs, lastPlannerPlan,
                                retry_count>>
            ELSE /\ refineArgs' =
                        [called |-> TRUE, original_plan |-> plan,
                         error_step |-> last_failure.step_index,
                         error_msg |-> ErrorOrUnknown(last_failure.error),
                         dom_snippet |-> IF driver = "alive" THEN "<html>" ELSE None]
                 /\ IF last_failure.step_index >= Len(plan)
                    THEN \* original_plan['steps'][error_step] raises IndexError
                         /\ planOutcome' = Append(planOutcome, "error")
                         /\ opc' = "failed"
                         /\ UNCHANGED <<plan, lastPlannerPlan, retry_count>>
                    ELSE \E resp \in PlannerResponses :
                           LET r == get_task_plan(resp) IN
                           /\ planOutcome' =
                                  Append(planOutcome, IF r.ok THEN "ok" ELSE "error")
                           /\ plan' = RefinedPlan(plan, r)
                           /\ lastPlannerPlan' =
                                  IF r.ok THEN r.steps ELSE lastPlannerPlan
                           /\ retry_count' =
                                  IF r.ok THEN retry_count + 1 ELSE retry_count
                           /\ opc' = IF r.ok THEN "loop_check" ELSE "failed"
    /\ UNCHANGED <<monitorVars, configVars, sessionVars, clientVars, sessions, driver, url, epc, i, result, callStart,
                   raised, execResults>>

\* A caller takes the log (get_execution_log) once the run is over
take_log ==
    /\ opc \in Terminal
    /\ ~snapshot.taken
    /\ snapshot' = ("mutated" :> FALSE) @@ get_log
    /\ UNCHANGED <<monitorVars, configVars, sessionVars, taskVars, listeners, summaries, response,
                   sessions, driver, url, plan, epc, i, result, callStart, raised>>

\* What a caller can do to the list it was given: drop its last entry, or
\* overwrite a field of its first entry
MutationsOf(log) ==
    IF log = <<>> THEN {}
    ELSE {SubSeq(log, 1, Len(log) - 1),
          [log EXCEPT ![1] = [log[1] EXCEPT !.status = "edited"]]} \ {log}

\* The caller mutates the list get_log returned; the monitor's own list
\* changes with it exactly when the two are the same object
caller_mutates_log ==
    /\ snapshot.taken
    /\ ~snapshot.mutated
    /\ \E log2 \in MutationsOf(snapshot.log) :
         /\ snapshot' = [snapshot EXCEPT !.log = log2, !.mutated = TRUE]
         /\ events' = IF snapshot.shares THEN log2 ELSE events
    /\ UNCHANGED <<current_step, delivered, emit_error, now, configVars, sessionVars, taskVars,
                   listeners, summaries, response, sessions, driver, url, plan, epc,
                   i, result, callStart, raised>>

Next ==
    \/ execute_task_planning
    \/ execute_task_loop
    \/ execute_task_after_exec
    \/ execute_task_exec_raised
    \/ execute_task_recover
    \/ execute_plan_entry
    \/ execute_step_started
    \/ execute_step_dispatch
    \/ execute_plan_step_failed
    \/ execute_plan_done
    \/ BrowserDies

Spec == Init /\ [][Next]_vars

\* An interactive session (run_interactive_mode): once a run is over, by a
\* return or by an exception the loop catches, execute_task is called again
\* on the same orchestrator.  `run.earlier` is the log as it is then.

\* Variant of the loop that builds a fresh monitor for every task.
next_task_ClearsLog ==
    /\ opc \in Terminal
    /\ ~run.later
    /\ opc' = "idle"
    /\ run' = [later |-> TRUE, earlier |-> events]
    /\ events' = <<>>
    /\ current_step' = NoStep
    /\ UNCHANGED <<delivered, emit_error, now, configVars, clientVars, sessions,
                   driver, url, plan, epc, i, result, callStart, raised, retry_count,
                   execResults, planOutcome, refineArgs, lastPlannerPlan>>

next_task ==
    /\ opc \in Terminal
    /\ ~run.later
    /\ opc' = "idle"
    /\ run' = [later |-> TRUE, earlier |-> events]
    /\ UNCHANGED <<monitorVars, configVars, clientVars, sessions, driver, url, plan,
                   epc, i, result, callStart, raised, retry_count, execResults,
                   planOutcome, refineArgs, lastPlannerPlan>>

\* The configuration of the session explored: retries on, one retry
SessionInit ==
    /\ Init
    /\ auto_retry = TRUE
    /\ max_retries = 1

SessionNext ==
    \/ execute_task_planning
    \/ execute_task_loop
    \/ execute_task_after_exec
    \/ execute_task_exec_raised
    \/ execute_task_recover
    \/ execute_plan_entry
    \/ execute_step_started
    \/ execute_step_dispatch
    \/ execute_plan_step_failed
    \/ execute_plan_done
    \/ BrowserDies
    \/ next_task

SessionSpec == SessionInit /\ [][SessionNext]_vars

\* A run of execute_task followed by a caller that reads the log
LogNext ==
    \/ execute_task_planning
    \/ execute_task_loop
    \/ execute_task_after_exec
    \/ execute_task_exec_raised
    \/ execute_task_recover
    \/ execute_plan_entry
    \/ execute_step_started
    \/ execute_step_dispatch
    \/ execute_plan_step_failed
    \/ execute_plan_done
    \/ BrowserDies
    \/ take_log
    \/ caller_mutates_log

LogSpec == Init /\ [][LogNext]_vars

----------------------------------------------------------------------------
\* A RuntimeMonitor driven directly: listeners registered, events emitted and
\* the log read in any order

\* Events a direct caller emits
DirectEvents ==
    {StepEvent(0, "click", "started", "#x", None, None, None, NoPath),
     StepEvent(0, "click", "success", "#x", None, None, None, NoPath),
     StepEvent(2, "click", "started", "#x", None, None, None, NoPath),
     StepEvent(2, "click", "failed", "#x", None, None, "boom", NoPath)}

MonitorInit ==
    /\ auto_retry = TRUE
    /\ max_retries = DefaultMaxRetries
    /\ events = <<>>
    /\ current_step = NoStep
    /\ driver = "none"
    /\ url = None
    /\ plan = <<>>
    /\ epc = "idle"
    /\ i = 0
    /\ result = "none"
    /\ callStart = 0
    /\ raised = None
    /\ opc = "monitor"
    /\ retry_count = 0
    /\ execResults = <<>>
    /\ planOutcome = <<>>
    /\ refineArgs = NoArgs
    /\ lastPlannerPlan = <<>>
    /\ listeners = <<>>
    /\ delivered = <<>>
    /\ emit_error = None
    /\ now = 0
    /\ snapshot = NoSnapshot
    /\ summaries = <<>>
    /\ response = NoResponse
    /\ sessions = 0
    /\ run = FirstRun

register_listener ==
    /\ opc = "monitor"
    /\ Len(listeners) < MaxListeners
    /\ \E callback \in ListenerKinds : add_listener(callback)
    /\ UNCHANGED <<monitorVars, configVars, sessionVars, taskVars, snapshot, summaries, response,
                   sessions, driver, url, plan, epc, i, result, callStart, raised>>

direct_emit ==
    /\ opc = "monitor"
    /\ Len(events) < MaxEmits
    /\ \E ev \in DirectEvents : Emit(ev)
    /\ UNCHANGED <<configVars, sessionVars, clientVars, taskVars, sessions, driver, url, plan, epc,
                   i, result, callStart, raised>>

MonitorNext ==
    \/ register_listener
    \/ direct_emit

MonitorSpec == MonitorInit /\ [][MonitorNext]_vars

----------------------------------------------------------------------------
\* An OpenRouterPlanner called directly: one get_task_plan or one
\* refine_plan_with_error call on any response

OpenNoUrl == [action |-> "open"]
TypeNoValue == [action |-> "type", selector |-> "#q"]
TypeNoSelector == [action |-> "type", value |-> "v"]
WaitNoSeconds == [action |-> "wait"]

\* Steps a language model may put in its answer
ResponseSteps ==
    StepUniverse \cup {OpenNoUrl, TypeNoValue, TypeNoSelector, WaitNoSeconds}

DirectResponses ==
    {[kind |-> "transport_error"], [kind |-> "non_json"], [kind |-> "no_choices_key"],
     [kind |-> "no_steps_key"]}
        \cup {[kind |-> "json", steps |-> p] : p \in PlansOver(ResponseSteps)}

PlannerInit ==
    /\ auto_retry = TRUE
    /\ max_retries = DefaultMaxRetries
    /\ events = <<>>
    /\ current_step = NoStep
    /\ driver = "none"
    /\ url = None
    /\ plan = <<>>
    /\ epc = "idle"
    /\ i = 0
    /\ result = "none"
    /\ callStart = 0
    /\ raised = None
    /\ opc = "planner"
    /\ retry_count = 0
    /\ execResults = <<>>
    /\ planOutcome = <<>>
    /\ refineArgs = NoArgs
    /\ lastPlannerPlan = <<>>
    /\ listeners = <<>>
    /\ delivered = <<>>
    /\ emit_error = None
    /\ now = 0
    /\ snapshot = NoSnapshot
    /\ summaries = <<>>
    /\ response = NoResponse
    /\ sessions = 0
    /\ run = FirstRun

\* plan = planner.get_task_plan(task): the caller's variable is assigned only
\* when the call returns
direct_get_task_plan ==
    /\ opc = "planner"
    /\ planOutcome = <<>>
    /\ \E resp \in DirectResponses :
         LET r == get_task_plan(resp) IN
         /\ response' = resp
         /\ planOutcome' = <<IF r.ok THEN "ok" ELSE "error">>
         /\ plan' = IF r.ok THEN r.steps ELSE plan
         /\ lastPlannerPlan' = IF r.ok THEN r.steps ELSE lastPlannerPlan
    /\ UNCHANGED <<monitorVars, configVars, sessionVars, listeners, snapshot, summaries, sessions,
                   driver, url, epc, i, result, callStart, raised, opc, retry_count,
                   execResults, refineArgs>>

\* plan = planner.refine_plan_with_error(original_plan, error_step, ...)
direct_refine_plan ==
    /\ opc = "planner"
    /\ planOutcome = <<>>
    /\ \E original_plan \in {<<>>, <<ClickStep>>}, error_step \in {0, 1},
          resp \in DirectResponses :
         LET r == refine_plan_with_error(original_plan, error_step, resp) IN
         /\ refineArgs' = [called |-> TRUE, original_plan |-> original_plan,
                           error_step |-> error_step, error_msg |-> "boom",
                           dom_snippet |-> None]
         /\ response' = IF error_step >= Len(original_plan) THEN response ELSE resp
         /\ planOutcome' = <<IF r.ok THEN "ok" ELSE "error">>
         /\ plan' = IF r.ok THEN r.steps ELSE plan
         /\ lastPlannerPlan' = IF r.ok THEN r.steps ELSE lastPlannerPlan
    /\ UNCHANGED <<monitorVars, configVars, sessionVars, listeners, snapshot, summaries, sessions,
                   driver, url, epc, i, result, callStart, raised, opc, retry_count,
                   execResults>>

PlannerNext ==
    \/ direct_get_task_plan
    \/ direct_refine_plan

PlannerSpec == PlannerInit /\ [][PlannerNext]_vars

----------------------------------------------------------------------------
\* An ExecutionReporter used directly: ExecutionReporter(log), then
\* generate_summary called at any times

\* The event dicts the list is made of, stamped with the time `ts`
LoggedEvents(ts) ==
    {[step_index |-> 0, action |-> "open", status |-> "started", timestamp |-> ts,
      selector |-> None, url |-> "data:,", value |-> None, error |-> None,
      screenshot_path |-> NoPath],
     [step_index |-> 0, action |-> "open", status |-> "success", timestamp |-> ts,
      selector |-> None, url |-> "A", value |-> None, error |-> None,
      screenshot_path |-> NoPath],
     [step_index |-> 1, action |-> "click", status |-> "started", timestamp |-> ts,
      selector |-> "#x", url |-> "A", value |-> None, error |-> None,
      screenshot_path |-> NoPath],
     [step_index |-> 1, action |-> "click", status |-> "failed", timestamp |-> ts,
      selector |-> "#x", url |-> "A", value |-> None,
      error |-> "TimeoutException: element not clickable",
      screenshot_path |-> <<"error_step", 1>>],
     [step_index |-> 1, action |-> "click", status |-> "failed", timestamp |-> ts,
      selector |-> "#x", url |-> "A", value |-> None, error |-> StepExecutionFailed,
      screenshot_path |-> <<"error_step", 1>>],
     [step_index |-> 0, action |-> "wait", status |-> "success", timestamp |-> ts,
      selector |-> None, url |-> "data:,", value |-> None, error |-> None,
      screenshot_path |-> NoPath]}

\* Lists of up to MaxLogLen event dicts, one clock tick apart
ReportLogs ==
    UNION {{[k \in 1..n |-> [log[k] EXCEPT !.timestamp = k - 1]] :
                log \in [1..n -> LoggedEvents(0)]} : n \in 0..MaxLogLen}

ReportInit ==
    /\ auto_retry = TRUE
    /\ max_retries = DefaultMaxRetries
    /\ events = <<>>
    /\ current_step = NoStep
    /\ driver = "none"
    /\ url = None
    /\ plan = <<>>
    /\ epc = "idle"
    /\ i = 0
    /\ result = "none"
    /\ callStart = 0
    /\ raised = None
    /\ opc = "report"
    /\ retry_count = 0
    /\ execResults = <<>>
    /\ planOutcome = <<>>
    /\ refineArgs = NoArgs
    /\ lastPlannerPlan = <<>>
    /\ listeners = <<>>
    /\ delivered = <<>>
    /\ emit_error = None
    /\ now = MaxLogLen
    /\ \E log \in ReportLogs :
          snapshot = [taken |-> TRUE, log |-> log, shares |-> FALSE, mutated |-> FALSE]
    /\ summaries = <<>>
    /\ response = NoResponse
    /\ sessions = 0
    /\ run = FirstRun

\* reporter.generate_summary() at the current time; `at` records the time
render_summary ==
    /\ opc = "report"
    /\ Len(summaries) < MaxRenders
    /\ summaries' = Append(summaries, [at |-> now,
                                       value |-> generate_summary(snapshot.log, now)])
    /\ UNCHANGED <<monitorVars, configVars, sessionVars, taskVars, listeners, snapshot, response,
                   sessions, driver, url, plan, epc, i, result, callStart, raised>>

\* Time passes between two calls
Tick ==
    /\ opc = "report"
    /\ now < MaxLogLen + MaxClock
    /\ now' = now + 1
    /\ UNCHANGED <<events, current_step, delivered, emit_error, configVars, sessionVars, clientVars,
                   taskVars, sessions, driver, url, plan, epc, i, result, callStart,
                   raised>>

ReportNext ==
    \/ render_summary
    \/ Tick

ReportSpec == ReportInit /\ [][ReportNext]_vars

----------------------------------------------------------------------------
\* Properties of one execute_plan call (checked under ExecSpec)

\* The events appended since execute_plan was entered, as <<status, index>>
CallLog == SubSeq(events, callStart + 1, Len(events))
Proj(s) == [k \in 1..Len(s) |-> <<s[k].status, s[k].step_index>>]
\* started(0), success(0), ..., started(n-1), success(n-1)
Pairs(n) ==
    [k \in 1..(2 * n) |->
        IF k % 2 = 1 THEN <<"started", (k - 1) \div 2>> ELSE <<"success", (k - 2) \div 2>>]
HasStatus(s, st) == \E k \in 1..Len(s) : s[k].status = st

\* C1: when step k of a plan fails after steps 0..k-1 succeeded, execute_plan
\* returns false having appended exactly k started/success pairs, then one
\* started and exactly one failed event for step k, and nothing for later steps.
C1_OneFailedEventPerFailedStep ==
    (epc = "returned" /\ raised # None) =>
        /\ result = "false"
        /\ \E k \in 0..(Len(plan) - 1) :
              Proj(CallLog) = Pairs(k) \o << <<"started", k>>, <<"failed", k>> >>

\* C2: when every action of a plan of N steps succeeds, execute_plan returns
\* true having appended exactly started(0), success(0), ..., started(N-1),
\* success(N-1) and no failed event; a call on a live browser session ends by
\* returning.
C2_AllSucceed ==
    /\ (epc = "returned" /\ raised = None) =>
          /\ result = "true"
          /\ Proj(CallLog) = Pairs(Len(plan))
          /\ ~HasStatus(CallLog, "failed")
    /\ epc = "raised" => driver # "alive"

C2_Witness ==
    /\ epc = "returned"
    /\ raised = None
    /\ result = "true"
    /\ Len(plan) >= 2
    /\ Len(CallLog) = 2 * Len(plan)

\* C3: within one execute_plan call no step is started after a failed event,
\* the call returns true exactly when every step of the plan has a success
\* event, and once a step has failed (a lost browser session included) the
\* call returns false at that step.
C3_HaltOnFirstFailure ==
    LET log == CallLog IN
    /\ \A a, b \in 1..Len(log) :
          (a < b /\ log[a].status = "failed") => log[b].status # "started"
    /\ epc = "returned" =>
          (result = "true" <=>
              \A k \in 0..(Len(plan) - 1) :
                  \E a \in 1..Len(log) :
                      log[a].status = "success" /\ log[a].step_index = k)
    /\ (epc \in {"returned", "raised"} /\ raised # None) =>
          /\ epc = "returned"
          /\ result = "false"
          /\ \A a \in 1..Len(log) : log[a].step_index <= i
          /\ \A a \in 1..Len(log) : log[a].status = "failed" => log[a].step_index = i

\* C6: every error of an execution step (a browser that cannot be started or
\* cannot take the error screenshot included) ends as a failed event of that
\* step carrying the error message and a screenshot path, with execute_plan
\* returning false; no error leaves execute_plan.
C6_NoErrorEscapesExecute ==
    /\ epc # "raised"
    /\ (epc = "returned" /\ raised # None) =>
          /\ result = "false"
          /\ \E a \in 1..Len(CallLog) :
                /\ CallLog[a].status = "failed"
                /\ CallLog[a].step_index = i
                /\ CallLog[a].error = raised
                /\ CallLog[a].screenshot_path # NoPath

----------------------------------------------------------------------------
\* Properties of one execute_task run (checked under Spec)

\* Executing phases of the run so far, the one in progress included
ExecPhases == Len(execResults) + (IF opc = "executing" THEN 1 ELSE 0)
AllAttemptsFailed == \A k \in 1..Len(execResults) : execResults[k] = "false"
PlannerAlwaysOk ==
    /\ planOutcome # <<>>
    /\ \A k \in 1..Len(planOutcome) : planOutcome[k] = "ok"
Max(a, b) == IF a >= b THEN a ELSE b
Last(s) == s[Len(s)]

\* A measure of the work execute_task has left: remaining attempts, then the
\* phase of the attempt, then the steps left in the plan being executed.
PhaseWeight == 4 * (MaxPlanLen + 2)
InnerRank ==
    CASE epc = "entry" -> 4 * (Len(plan) + 1) + 3
      [] epc = "loop" -> 4 * (Len(plan) - i) + 3
      [] epc = "dispatch" -> 4 * (Len(plan) - i) + 2
      [] epc = "step_failed" -> 4 * (Len(plan) - i) + 1
      [] OTHER -> 0
TaskRank ==
    CASE opc = "idle" -> (max_retries + 3) * 4 * PhaseWeight
      [] opc = "loop_check" ->
            (max_retries - retry_count + 2) * 4 * PhaseWeight + 3 * PhaseWeight
      [] opc = "executing" ->
            (max_retries - retry_count + 2) * 4 * PhaseWeight + 2 * PhaseWeight
                + InnerRank
      [] opc = "recovering" ->
            (max_retries - retry_count + 2) * 4 * PhaseWeight + PhaseWeight
      [] OTHER -> 0
Rank == 2 * TaskRank + (IF driver = "alive" THEN 1 ELSE 0)

C4_Bounds(retryLimit, phaseLimit) ==
    (PlannerAlwaysOk /\ AllAttemptsFailed) =>
        /\ retry_count <= retryLimit
        /\ ExecPhases <= phaseLimit
        /\ opc \in Terminal => opc = "failed"

\* C4 (as claimed): with max_retries = R, planner calls succeeding and every
\* execution attempt returning false, the retry count never exceeds R, there
\* are at most R+1 Executing phases and the run ends in Failed.
C4_RetryCountWithinMaxRetries == C4_Bounds(max_retries, max_retries + 1)

\* C4 (amended): under the same premises the retry count never exceeds
\* max(R, 0), there are at most max(R+1, 0) Executing phases, the run ends in
\* Failed, and it terminates: every step of the run lowers Rank.
C4_RetryBound ==
    /\ [](C4_Bounds(Max(max_retries, 0), Max(max_retries + 1, 0)))
    /\ [][Rank' < Rank]_vars

C4_Witness ==
    /\ opc = "failed"
    /\ auto_retry
    /\ max_retries = DefaultMaxRetries
    /\ PlannerAlwaysOk
    /\ AllAttemptsFailed
    /\ Len(execResults) = max_retries + 1
    /\ retry_count = max_retries

\* C5: a run ends Succeeded or Failed and never by an error leaving
\* execute_task -- stated here for the runs in which no execute_plan call
\* raised, the zero-step plan included.
C5_RunEndsSucceededOrFailed ==
    opc = "crashed" => \E k \in 1..Len(execResults) : execResults[k] = "raised"

\* C7: after execute_plan returned, the run is Succeeded if it returned true,
\* Failed if it returned false with auto-retry off or retry_count >=
\* max_retries, and Recovering only if it returned false with auto-retry on
\* and retry_count < max_retries; with auto-retry off there is no second
\* Executing phase and no refine call.
C7_ExecutingTransitions ==
    /\ (execResults # <<>> /\ Last(execResults) = "true") => opc = "succeeded"
    /\ (/\ execResults # <<>>
        /\ Last(execResults) = "false"
        /\ ~auto_retry \/ retry_count >= max_retries
        /\ opc \notin {"loop_check", "executing"}) => opc = "failed"
    /\ opc = "recovering" =>
          /\ Last(execResults) = "false"
          /\ auto_retry
          /\ retry_count < max_retries
    /\ ~auto_retry => (ExecPhases <= 1 /\ Len(planOutcome) <= 1)

\* C8: when the initial planning call fails the run is Failed at once: no
\* second planner call, no execute_plan call, no browser start, no event.
C8_PlanningFailureIsTerminal ==
    (planOutcome # <<>> /\ planOutcome[1] = "error") =>
        /\ opc = "failed"
        /\ Len(planOutcome) = 1
        /\ refineArgs = NoArgs
        /\ execResults = <<>>
        /\ epc = "idle"
        /\ driver = "none"
        /\ events = <<>>

C8_Witness ==
    /\ planOutcome = <<"error">>
    /\ opc = "failed"

\* C9: a refine call that fails ends the run as Failed, with the log, the plan
\* and the retry count untouched and no later Executing phase; one that
\* succeeds adds exactly one to the retry count, makes the returned plan the
\* active plan, and the next step of the run is an Executing phase on it.
C9_RecoveryOutcome ==
    /\ [][(opc = "recovering" /\ Len(planOutcome') > Len(planOutcome)) =>
            IF Last(planOutcome') = "ok"
            THEN /\ retry_count' = retry_count + 1
                 /\ plan' = lastPlannerPlan'
                 /\ opc' = "loop_check"
                 /\ retry_count' <= max_retries
            ELSE /\ opc' = "failed"
                 /\ UNCHANGED <<events, plan, retry_count, execResults>>]_vars
    /\ [][(opc = "loop_check" /\ retry_count > 0) =>
            /\ opc' = "executing"
            /\ epc' = "entry"
            /\ plan' = lastPlannerPlan]_vars
    /\ [][opc = "failed" => (opc' = "failed" /\ execResults' = execResults)]_vars

C9_Witness ==
    /\ Len(planOutcome) >= 2
    /\ Last(planOutcome) = "ok"
    /\ opc = "executing"
    /\ epc = "dispatch"
    /\ retry_count = Len(planOutcome) - 1
    /\ plan = lastPlannerPlan

\* C10: every refine call gets the plan that just failed, the step index of
\* the latest failed event of the log, the message of the error that step's
\* action raised, and the DOM sample.
C10_RefineArguments ==
    [][(opc = "recovering" /\ Len(planOutcome') > Len(planOutcome)) =>
          /\ refineArgs'.called
          /\ refineArgs'.original_plan = plan
          /\ refineArgs'.error_step = Last(FailedEvents).step_index
          /\ refineArgs'.error_msg = raised
          /\ refineArgs'.dom_snippet = "<html>"]_vars

----------------------------------------------------------------------------
\* Properties of the summary of a run (checked under Spec)

\* C11 as stated: a run that ends Failed after the initial planning succeeded
\* has a failed event in the log and a non-empty error list in its Summary,
\* and a Failed run with an empty error list is one whose planning failed
\* before any execution.  (Fails for max_retries < 0.)
C11_FailedRunHasFailedEvent ==
    opc = "failed" =>
        /\ planOutcome[1] = "ok" =>
              HasStatus(events, "failed") /\ get_summary.errors # <<>>
        /\ get_summary.errors = <<>> =>
              planOutcome = <<"error">> /\ execResults = <<>>

\* C11 amended: the same for max_retries >= 0; with max_retries < 0 the loop
\* body never runs and the run ends Failed with an empty log.
C11_FailedRunHasFailedEventNonNegative ==
    opc = "failed" =>
        /\ (planOutcome[1] = "ok" /\ max_retries >= 0) =>
              HasStatus(events, "failed") /\ get_summary.errors # <<>>
        /\ get_summary.errors = <<>> =>
              /\ execResults = <<>>
              /\ events = <<>>
              /\ planOutcome = <<"error">> \/ (planOutcome = <<"ok">> /\ max_retries < 0)

C11_Witness ==
    /\ opc = "failed"
    /\ planOutcome[1] = "ok"
    /\ max_retries >= 0
    /\ Len(get_summary.errors) >= 2
    /\ Len(execResults) >= 2

----------------------------------------------------------------------------
\* Properties of the monitor (checked under MonitorSpec)

\* C12: whatever listeners are registered and whichever of them raise, emit
\* appends the event, sets current_step to its index, calls every registered
\* listener once with the event, in registration order, and returns normally.
C12_EmitCallsEveryListener ==
    [][Len(events') > Len(events) =>
          LET ev == events'[Len(events')]
              before == Len(delivered)
          IN /\ events' = Append(events, ev)
             /\ current_step' = ev.step_index
             /\ Len(delivered') = before + Len(listeners)
             /\ SubSeq(delivered', 1, before) = delivered
             /\ \A k \in 1..Len(listeners) :
                   delivered'[before + k] = [listener |-> k, event |-> ev]
             /\ emit_error' = None]_vars

\* A listener registered after a raising one has been called
C12_Witness ==
    /\ emit_error = None
    /\ \E c \in 1..Len(delivered) :
          /\ \E j \in 1..(delivered[c].listener - 1) : listeners[j] = "raises"
          /\ delivered[c].event = events[Len(events)]

RECURSIVE Tally(_, _)
Tally(s, st) ==
    IF s = <<>> THEN 0
    ELSE (IF Head(s).status = st THEN 1 ELSE 0) + Tally(Tail(s), st)

\* C13: the status of an empty log is not_started with total_steps 0; of any
\* other log, total_steps is the highest step index plus one, completed and
\* failed count the success and the failed events, and current_step is the
\* index of the last event emitted.
C13_StatusOfLog ==
    LET st == get_current_status IN
    IF events = <<>>
    THEN st.status = "not_started" /\ st.total_steps = 0
    ELSE /\ \A k \in 1..Len(events) : events[k].step_index < st.total_steps
         /\ \E k \in 1..Len(events) : events[k].step_index = st.total_steps - 1
         /\ st.completed = Tally(events, "success")
         /\ st.failed = Tally(events, "failed")
         /\ st.current_step = events[Len(events)].step_index

C13_Witness ==
    /\ events # <<>>
    /\ get_current_status.total_steps # Len(events)
    /\ get_current_status.current_step # get_current_status.total_steps - 1
    /\ get_current_status.completed >= 1
    /\ get_current_status.failed >= 1

----------------------------------------------------------------------------
\* Properties of the log across a run and its readers (checked under LogSpec)

IsPrefix(s, t) == Len(s) <= Len(t) /\ SubSeq(t, 1, Len(s)) = s

\* C14: every step of a run, recoveries included, leaves the earlier log as a
\* prefix of the later one, and a caller mutating the list get_log returned
\* leaves the monitor's log as it was.
C14_LogAppendOnly ==
    [][/\ IsPrefix(events, events')
       /\ (snapshot.taken /\ snapshot' # snapshot) => events' = events]_vars

\* The caller changed its list after a run with a recovery; the log is intact
C14_Witness ==
    /\ snapshot.taken
    /\ snapshot.mutated
    /\ snapshot.log # get_log.log
    /\ Len(execResults) >= 2
    /\ Len(events) >= 4

----------------------------------------------------------------------------
\* Properties of the Summary (checked under Spec and ReportSpec)

\* C15: the Summary of the log of a finished run counts no more terminal
\* events than started ones (successful_steps + failed_steps <= total_steps),
\* and its success_rate is 0 when total_steps is 0.
C15_SummaryCountsBounded ==
    opc \in Terminal =>
        LET summary == get_summary IN
        /\ summary.successful_steps + summary.failed_steps <= summary.total_steps
        /\ summary.total_steps = 0 => summary.success_rate = 0

\* URLs of the success events of navigation (open) steps
NavigationUrls(log) ==
    {log[k].url : k \in {j \in 1..Len(log) : /\ log[j].status = "success"
                                             /\ log[j].action = "open"
                                             /\ Truthy(log[j].url)}}

\* URLs of the success events of steps of any kind
SuccessUrls(log) ==
    {log[k].url : k \in {j \in 1..Len(log) : /\ log[j].status = "success"
                                             /\ Truthy(log[j].url)}}

\* The failed events of a list, in order
RECURSIVE FailedOf(_)
FailedOf(s) ==
    IF s = <<>> THEN <<>>
    ELSE (IF Head(s).status = "failed" THEN <<Head(s)>> ELSE <<>>) \o FailedOf(Tail(s))

\* The counts and the error records of a Summary match the list
SummaryCounts(summary, log) ==
    /\ summary.total_steps = Tally(log, "started")
    /\ summary.successful_steps = Tally(log, "success")
    /\ summary.failed_steps = Tally(log, "failed")
    /\ Len(summary.errors) = Len(FailedOf(log))
    /\ \A k \in 1..Len(summary.errors) :
          /\ summary.errors[k].step = FailedOf(log)[k].step_index
          /\ summary.errors[k].action = FailedOf(log)[k].action
          /\ summary.errors[k].error = FailedOf(log)[k].error

\* C16 as stated: total_steps, successful_steps and failed_steps count the
\* started, success and failed events; success_rate is exactly
\* 100 * successful_steps / total_steps (0 without started events); there is
\* one error record per failed event in list order; urls_visited is the set of
\* URLs of successful navigation.  (success_rate is in hundredths of a percent.)
C16_SummaryOfLog ==
    \A r \in 1..Len(summaries) :
        LET summary == summaries[r].value
            log == snapshot.log
        IN /\ SummaryCounts(summary, log)
           /\ IF summary.total_steps = 0 THEN summary.success_rate = 0
              ELSE summary.success_rate * summary.total_steps
                       = 10000 * summary.successful_steps
           /\ summary.urls_visited = NavigationUrls(log)

\* C16 amended: success_rate is that quotient rounded to two decimals, and
\* urls_visited is the set of non-empty URLs of the success events of steps
\* of any kind.
C16_SummaryOfLogRounded ==
    \A r \in 1..Len(summaries) :
        LET summary == summaries[r].value
            log == snapshot.log
        IN /\ SummaryCounts(summary, log)
           /\ IF summary.total_steps = 0 THEN summary.success_rate = 0
              ELSE LET diff == summary.success_rate * summary.total_steps
                                   - 10000 * summary.successful_steps
                   IN 2 * diff <= summary.total_steps /\ -2 * diff <= summary.total_steps
           /\ summary.urls_visited = SuccessUrls(log)

\* The example of the claim: started(0, open), success(0, open, url A),
\* started(1, click), failed(1, click) gives 2, 1, 1, 50.0, {A}
C16_Witness ==
    /\ Len(summaries) >= 1
    /\ Len(snapshot.log) = 4
    /\ \A k \in 1..4 : snapshot.log[k].status = <<"started", "success", "started", "failed">>[k]
    /\ \A k \in 1..4 : snapshot.log[k].action = <<"open", "open", "click", "click">>[k]
    /\ summaries[1].value.total_steps = 2
    /\ summaries[1].value.successful_steps = 1
    /\ summaries[1].value.failed_steps = 1
    /\ summaries[1].value.success_rate = 5000
    /\ summaries[1].value.urls_visited = {"A"}
    /\ Len(summaries[1].value.errors) = 1

\* C17 as stated: all Summaries generated from one list are equal, execution
\* id included, whenever they are generated, and generating one leaves the
\* list unchanged.  (Fails for the empty list.)
C17_SummaryIdempotent ==
    [][/\ \A a, b \in 1..Len(summaries') : summaries'[a].value = summaries'[b].value
       /\ summaries' # summaries => snapshot' = snapshot]_vars

\* C17 amended: for a non-empty list; for the empty list every field but the
\* execution id is equal, and the execution id is the second of the call.
C17_SummaryIdempotentNonEmpty ==
    [][/\ \A a, b \in 1..Len(summaries') :
             IF snapshot.log # <<>>
             THEN summaries'[a].value = summaries'[b].value
             ELSE /\ [summaries'[a].value EXCEPT !.execution_id = None]
                        = [summaries'[b].value EXCEPT !.execution_id = None]
                  /\ summaries'[a].value.execution_id.second
                        = summaries'[a].at \div TicksPerSecond
       /\ summaries' # summaries => snapshot' = snapshot]_vars

\* Two Summaries of a non-empty list generated in different seconds
C17_Witness ==
    /\ Len(summaries) >= 2
    /\ snapshot.log # <<>>
    /\ summaries[1].at \div TicksPerSecond # summaries[2].at \div TicksPerSecond
    /\ summaries[1].value.execution_id = summaries[2].value.execution_id

----------------------------------------------------------------------------
\* Properties of the planner boundary (checked under PlannerSpec)

\* Fields each supported kind of step must carry
RequiredFields ==
    [open |-> {"url"}, type |-> {"selector", "value"}, click |-> {"selector"},
     wait |-> {"seconds"}, screenshot |-> {}]

WellFormedStep(step) ==
    /\ "action" \in DOMAIN step
    /\ step.action \in DOMAIN RequiredFields
    /\ RequiredFields[step.action] \subseteq DOMAIN step

WellFormedResponse(resp) ==
    /\ resp.kind = "json"
    /\ \A k \in 1..Len(resp.steps) : WellFormedStep(resp.steps[k])

\* C18: a planner call (get_task_plan or refine_plan_with_error) returns a plan
\* only if the response is JSON with steps that all name a supported kind and
\* carry the fields required for it, and the plan returned is that one; on a
\* transport failure, non-JSON text, missing keys, an unsupported kind or a
\* missing required field the call raises and the caller gets no plan.
C18_PlannerReturnsOnlyValidPlans ==
    [][planOutcome' # planOutcome =>
          /\ planOutcome' = <<"ok">> =>
                /\ WellFormedResponse(response')
                /\ plan' = response'.steps
          /\ (response' # response /\ ~WellFormedResponse(response')) =>
                /\ planOutcome' = <<"error">>
                /\ plan' = plan
                /\ lastPlannerPlan' = lastPlannerPlan]_vars

\* A plan with a type step and a wait step was accepted by a refine call
C18_Witness ==
    /\ refineArgs.called
    /\ planOutcome = <<"ok">>
    /\ plan = <<TypeStep, WaitStep>>

----------------------------------------------------------------------------
\* Properties of the browser session and of step order (checked under Spec)

\* C19: within one run the browser is started at most once, and only when no
\* session exists; every later Executing phase uses that session, and between
\* the dispatch of one step and the next (so from a failed attempt, through
\* recovery, into the next attempt) the current URL stays as it was left.
C19_OneSessionPerRun ==
    [][/\ sessions' # sessions =>
             driver = "none" /\ sessions = 0 /\ sessions' = 1 /\ execResults = <<>>
       /\ (sessions >= 1 /\ epc # "dispatch") => url' = url
       /\ (epc = "entry" /\ execResults # <<>>) =>
             driver' = driver /\ url' = url /\ sessions' = sessions]_vars

\* A second attempt starts on the page the failed first attempt left
C19_Witness ==
    /\ opc = "executing"
    /\ epc = "loop"
    /\ i = 0
    /\ execResults = <<"false">>
    /\ sessions = 1
    /\ driver = "alive"
    /\ url = "A"

\* Positions of the started events of a list
StartedAt(s) == {k \in 1..Len(s) : s[k].status = "started"}

\* C20: at most one step is in flight: when a started event is appended,
\* every earlier started event already has a terminal (success or failed)
\* event for its step after it; and the started events of one execute_plan
\* call carry the indices 0, 1, 2, ... in order, none skipped.
C20_OneStepInFlight ==
    /\ \A a, b \in StartedAt(events) :
          a < b => \E t \in (a + 1)..(b - 1) :
                      /\ events[t].status \in {"success", "failed"}
                      /\ events[t].step_index = events[a].step_index
    /\ \A k \in StartedAt(CallLog) :
          CallLog[k].step_index = Cardinality({j \in StartedAt(CallLog) : j < k})

\* The second attempt of a run has started its second step
C20_Witness ==
    /\ Len(execResults) >= 1
    /\ Cardinality(StartedAt(CallLog)) = 2
    /\ Cardinality(StartedAt(events)) >= 4
    /\ events[Len(events)].status = "started"

----------------------------------------------------------------------------
\* Properties of the attempts of a run (checked under Spec and ExecSpec)

\* C21: after a successful recovery the replacement plan is executed from its
\* step 0: the first event of the next attempt is started with index 0 and the
\* action of the new plan's first step, and every started event of the attempt
\* is a step of the new plan (the plan the planner returned last), at its own
\* index.
C21_RestartFromStepZero ==
    (opc = "executing" /\ epc # "entry" /\ Len(execResults) >= 1) =>
        /\ plan = lastPlannerPlan
        /\ CallLog # <<>> =>
              /\ CallLog[1].status = "started"
              /\ CallLog[1].step_index = 0
        /\ \A k \in StartedAt(CallLog) :
              /\ CallLog[k].step_index < Len(lastPlannerPlan)
              /\ CallLog[k].action = lastPlannerPlan[CallLog[k].step_index + 1].action

\* The first attempt failed at step 1, the plan was replaced by a different
\* one, and the second attempt has started its step 0
C21_Witness ==
    /\ opc = "executing"
    /\ epc = "dispatch"
    /\ Len(execResults) = 1
    /\ refineArgs.called
    /\ refineArgs.error_step = 1
    /\ refineArgs.original_plan # plan
    /\ Len(CallLog) = 1
    /\ CallLog[1].step_index = 0

\* C22: no step of execute_plan changes the plan: whatever the kind of the
\* step and whether it succeeds or fails, the plan after is the plan before.
C22_ExecuteLeavesPlanUnchanged ==
    [][epc # "idle" => plan' = plan]_vars

\* C23 as stated: the Summary's status is 'completed' exactly when the log has
\* no failed event; a run that returned true after a recovery has status
\* 'failed'; and a finished run whose Summary says 'completed' succeeded on
\* its first attempt.  (Fails for a run whose planning failed.)
C23_SummaryStatus ==
    /\ get_summary.status = "completed" <=> ~HasStatus(events, "failed")
    /\ (opc = "succeeded" /\ Len(execResults) >= 2) => get_summary.status = "failed"
    /\ (opc \in Terminal /\ get_summary.status = "completed") =>
          opc = "succeeded" /\ Len(execResults) = 1

\* C23 amended: among the runs that returned true only those that succeeded on
\* the first attempt report 'completed'; the other finished runs that report
\* 'completed' are those that logged no failure because they ended before any
\* step failed (planning failed, the loop body never ran, or an exception
\* ended the first attempt).
C23_SummaryStatusOfFinishedRuns ==
    /\ get_summary.status = "completed" <=> ~HasStatus(events, "failed")
    /\ (opc = "succeeded" /\ Len(execResults) >= 2) => get_summary.status = "failed"
    /\ (opc \in Terminal /\ get_summary.status = "completed") =>
          \/ opc = "succeeded" /\ Len(execResults) = 1
          \/ opc = "failed" /\ execResults = <<>> /\ events = <<>>
          \/ opc = "crashed" /\ execResults \in {<<"true">>, <<"raised">>}

C23_Witness ==
    /\ opc = "succeeded"
    /\ Len(execResults) >= 2
    /\ get_summary.status = "failed"
    /\ events[Len(events)].status = "success"

----------------------------------------------------------------------------
\* Properties of an interactive session (checked under SessionSpec)

\* The part of the log that the execute_task call in progress has written
OwnLog == SubSeq(events, Len(run.earlier) + 1, Len(events))

\* C24: in a later run on the same orchestrator the log of the earlier run
\* is still a prefix of the log, and the monitor's status and the reporter's
\* summary count the earlier events together with the run's own.
C24_LogKeptAcrossRuns ==
    (run.later /\ events # <<>>) =>
        /\ IsPrefix(run.earlier, events)
        /\ get_current_status.completed =
               Tally(run.earlier, "success") + Tally(OwnLog, "success")
        /\ get_current_status.failed =
               Tally(run.earlier, "failed") + Tally(OwnLog, "failed")
        /\ get_summary.total_steps =
               Tally(run.earlier, "started") + Tally(OwnLog, "started")
        /\ get_summary.successful_steps =
               Tally(run.earlier, "success") + Tally(OwnLog, "success")

\* A second run has ended, and its status counts more successes than the
\* run itself had
C24_Witness ==
    /\ run.later
    /\ opc \in Terminal
    /\ Tally(run.earlier, "success") >= 1
    /\ Tally(OwnLog, "success") >= 1
    /\ get_current_status.completed > Tally(OwnLog, "success")
    /\ get_summary.total_steps > Tally(OwnLog, "started")
----------------------------------------------------------------------------
\* Status counts of a finished run (checked under Spec)

\* C25: at the end of a run total_steps is the highest step index of the log
\* plus one while completed and failed count events of every attempt; only a
\* run with a recovery has completed above total_steps, and in a run without
\* recovery completed + failed stays within total_steps.
C25_StatusCountsWithinTotal ==
    (opc \in Terminal /\ events # <<>>) =>
        LET st == get_current_status IN
        /\ st.total_steps = SeqMax(events) + 1
        /\ st.completed > st.total_steps => Len(execResults) >= 2
        /\ Len(execResults) <= 1 => st.completed + st.failed <= st.total_steps
----------------------------------------------------------------------------
\* Plans the orchestrator executes (checked under Spec)

\* str(e) of the exceptions the browser operations raise
BrowserErrors ==
    {InvalidSession, "WebDriverException: navigation failed",
     "TimeoutException: element not present",
     "TimeoutException: element not clickable"}

\* C26: the plan under execution is one the planner validated, so no step of
\* it has an unknown kind or lacks a required field, and every failed event
\* of the run carries the error of a browser operation (or is the executor's
\* own report of that failed step).
C26_FailuresStemFromBrowser ==
    /\ opc = "executing" =>
           /\ plan = lastPlannerPlan
           /\ \A k \in 1..Len(plan) : WellFormedStep(plan[k])
    /\ \A k \in 1..Len(events) :
           events[k].status = "failed" =>
               events[k].error \in BrowserErrors \cup {StepExecutionFailed}
----------------------------------------------------------------------------
\* Recovery in an interactive session (checked under SessionSpec)

\* C27: when the orchestrator is about to recover, the log has a failed event,
\* the last one was emitted by the execute_plan call that just returned, and
\* its step index is an index of the current plan; every refine call made
\* was given a step index inside the plan given with it.
C27_RecoveryRefersToLastAttempt ==
    /\ opc = "recovering" =>
           /\ FailedEvents # <<>>
           /\ \E k \in (callStart + 1)..Len(events) : events[k] = LastFailure
           /\ LastFailure.step_index \in 0..(Len(plan) - 1)
    /\ refineArgs.called =>
           refineArgs.error_step \in 0..(Len(refineArgs.original_plan) - 1)

\* A refine call in a second run, after a first run that recovered and whose
\* log holds a failed event with an index outside the plan now refined
C27_Witness ==
    /\ run.later
    /\ refineArgs.called
    /\ Len(planOutcome) = 2
    /\ Tally(OwnLog, "failed") >= 1
    /\ \E k \in 1..Len(run.earlier) :
           /\ run.earlier[k].status = "failed"
           /\ run.earlier[k].step_index >= Len(refineArgs.original_plan)
    /\ \E k \in 1..Len(run.earlier) :
           run.earlier[k].status = "started" /\ k > 1 /\ run.earlier[k].step_index = 0
----------------------------------------------------------------------------
\* Planner calls of a run (checked under Spec)

\* Refinement calls made so far, and those that returned a plan
RefineCalls == Len(planOutcome) - 1
OkRefinements == Cardinality({k \in 2..Len(planOutcome) : planOutcome[k] = "ok"})

\* Once the run has started the initial planning call has been made, at most
\* `limit` refinement calls followed it, and at the end of a run whose
\* planning succeeded (max_retries >= 0) there were as many Executing phases
\* as successful refinements plus one.
C28_Counts(limit) ==
    opc # "idle" =>
        /\ Len(planOutcome) >= 1
        /\ RefineCalls <= limit
        /\ (opc \in Terminal /\ planOutcome[1] = "ok" /\ max_retries >= 0) =>
               Len(execResults) = OkRefinements + 1

\* A planner call is the initial one, made once when the run starts, or a
\* refinement made from Recovering after an Executing phase that failed.
C28_CallOrder ==
    planOutcome' # planOutcome =>
        \/ opc = "idle" /\ Len(planOutcome') = 1
        \/ /\ opc = "recovering"
           /\ execResults # <<>>
           /\ Last(execResults) = "false"
           /\ Len(planOutcome') = Len(planOutcome) + 1
           /\ SubSeq(planOutcome', 1, Len(planOutcome)) = planOutcome

\* C28 (as claimed): in one run the initial planning call is made exactly
\* once, refinement is called at most max_retries times and only after a
\* failed Executing phase, and when planning succeeded and max_retries >= 0
\* the run has as many Executing phases as successful refinements plus one.
C28_PlannerCalls == [](C28_Counts(max_retries)) /\ [][C28_CallOrder]_vars

\* C28 (amended): the same with at most max(max_retries, 0) refinement calls.
C28_PlannerCallsNonNegative ==
    [](C28_Counts(Max(max_retries, 0))) /\ [][C28_CallOrder]_vars

\* A run that used its whole budget of two refinements, both successful, and
\* so had three Executing phases
C28_Witness ==
    /\ opc \in Terminal
    /\ max_retries = 2
    /\ RefineCalls = 2
    /\ OkRefinements = 2
    /\ Len(execResults) = 3
====
